---- MODULE Spec2Model ----
(***************************************************************************)
(* Model of the exercise harness of src/exercises/utils/base_exercise.py:  *)
(* BaseExercise (hint rationing, timer, static validation) and             *)
(* ExerciseRunner (run_exercise, history, progress report).                *)
(*                                                                         *)
(* run_exercise is a coroutine.  It can be suspended at its two real       *)
(* awaits, exercise.setup() and exercise.run_exercise(user_code) (the      *)
(* evaluation step); validate_code is awaited too, but its body has no     *)
(* await, so it runs to completion without yielding.  Each stretch of code *)
(* between two suspension points is one atomic action.                     *)
(***************************************************************************)
EXTENDS Integers, Sequences, FiniteSets, TLC

\* ------------------------------------------------------------------ bounds
MaxAttempts == 2      \* run_exercise calls started in one behaviour
MaxRegistered == 2    \* add_exercise calls in one behaviour
MaxClock == 1         \* largest reading of time.time()
MaxHintCalls == 2     \* get_next_hint calls in one behaviour
MaxHistory == 3       \* longest history a report is computed from (SpecReport)

\* ------------------------------------------------------------- value sets
None == "None"
NoTime == -1          \* start_time = None (clock readings are >= 0)

Exercises == {"ex1", "ex2"}
Attempts == 1..MaxAttempts

\* ExerciseLevel values (two of the four are enough to have grouping)
LEVEL_1 == "basic_interaction"
LEVEL_2 == "structured_responses"

\* The hint sequence a concrete exercise returns from get_hints()
AllHints == <<"hint A", "hint B">>

\* Constructor arguments of the exercises of a behaviour: level, max_hints,
\* and the length of the list get_hints() returns.
ExerciseConfigs ==
    { [ex1 |-> [level |-> LEVEL_1, max_hints |-> 1, nhints |-> 2],
       ex2 |-> [level |-> LEVEL_2, max_hints |-> 2, nhints |-> 1]],
      [ex1 |-> [level |-> LEVEL_1, max_hints |-> 2, nhints |-> 2],
       ex2 |-> [level |-> LEVEL_1, max_hints |-> -1, nhints |-> 2]] }

\* Submissions, as token sequences (the text is the tokens joined by blanks)
CodeFrom == <<"from", "lionagi", "import", "Branch">>
CodePlain == <<"x", "=", "1">>
CodeImportBad == <<"import", "lionagi", "(">>
CodePlainBad == <<"x", "=", "(">>
\* a str with a lone surrogate, which cannot be encoded for the compiler
CodeSurrogate == <<"import", "lionagi", "#", "U+D800">>
Submissions ==
    {CodeFrom, CodePlain, CodeImportBad, CodePlainBad, CodeSurrogate}

\* What a concrete exercise's evaluation step may hand back.  The grading
\* policy is the subclass's; the harness accepts any ExerciseResult, also
\* one whose fields are inconsistent, and whatever time_taken the subclass
\* puts in it.  Scores are in hundredths.
EvalOutcomes ==
    { [success |-> TRUE, score |-> 100, time_taken |-> 3, errors |-> <<>>,
       output |-> "Paris", hints_used |-> 0],
      [success |-> FALSE, score |-> 0, time_taken |-> -1,
       errors |-> <<"Wrong answer">>, output |-> None, hints_used |-> 0],
      [success |-> TRUE, score |-> 50, time_taken |-> 0,
       errors |-> <<"Partial">>, output |-> "Pa", hints_used |-> 9] }

\* ------------------------------------------------------------------ state
VARIABLES
    level,        \* BaseExercise.level
    max_hints,    \* BaseExercise.max_hints
    hints,        \* what get_hints() returns, per exercise
    hints_used,   \* BaseExercise.hints_used
    start_time,   \* BaseExercise.start_time (None or a clock reading)
    exercises,    \* ExerciseRunner.exercises
    results,      \* ExerciseRunner.results, the history
    clock,        \* time.time()
    pc,           \* where each run_exercise call stands
    att_ex,       \* its exercise argument
    att_code,     \* its user_code argument, while it is in flight
    trace,        \* the exercise methods it has invoked so far, in order
    results_by,   \* for each history entry, the call that appended it
    results_id,   \* for each history entry, the identity of the object it is
    completed,    \* the calls that returned a Result, in order of return
    hint_calls,   \* number of get_next_hint calls made, per exercise
    issued,       \* the hints get_next_hint returned, in order, per exercise
    last          \* the operation of the last step and what it returned

vars == <<level, max_hints, hints, hints_used, start_time, exercises, results,
          clock, pc, att_ex, att_code, trace, results_by, results_id,
          completed, hint_calls, issued, last>>

exerciseVars == <<level, max_hints, hints>>
hintVars == <<hints_used, hint_calls, issued>>
callVars == <<pc, att_ex, att_code, trace, completed>>
runnerVars == <<exercises, results, results_by, results_id>>

\* ------------------------------------------------------- pure definitions
\* the substring test `pat in code`
Contains(code, pat) ==
    \E i \in 0..(Len(code) - Len(pat)) : SubSeq(code, i + 1, i + Len(pat)) = pat

\* compile(code, '<string>', 'exec') on the submissions (and on the empty
\* text): the exception it raises, None if it raises none, and the text of
\* the exception
compile(code) ==
    CASE code \in {<<>>, CodeFrom, CodePlain} -> [raised |-> None]
      [] code = CodeImportBad ->
            [raised |-> "SyntaxError",
             text |-> "invalid syntax (<string>, line 1)"]
      [] code = CodePlainBad ->
            [raised |-> "SyntaxError",
             text |-> "'(' was never closed (<string>, line 1)"]
      [] code = CodeSurrogate -> [raised |-> "UnicodeEncodeError"]

\* validate_code: the list it returns (value), or the exception of compile
\* that `except SyntaxError` lets through (raised)
validate_code(code) ==
    LET importErrors ==
            IF ~Contains(code, <<"import", "lionagi">>)
               /\ ~Contains(code, <<"from", "lionagi">>)
            THEN <<"Missing lionagi import">>
            ELSE <<>>
        compiled == compile(code)
    IN  CASE compiled.raised = None ->
                [raised |-> None, value |-> importErrors]
          [] compiled.raised = "SyntaxError" ->
                [raised |-> None,
                 value |-> importErrors
                             \o <<"Syntax error: " \o compiled.text>>]
          [] OTHER -> [raised |-> compiled.raised]

\* get_elapsed_time, given the start_time and the reading of time.time()
get_elapsed_time_Reversed(st, now) ==
    IF st = NoTime THEN 0 ELSE st - now

get_elapsed_time(st, now) ==
    IF st = NoTime THEN 0 ELSE now - st

\* ExerciseResult(...)
ExerciseResult(success, score, time_taken, errors, output, hu) ==
    [success |-> success, score |-> score, time_taken |-> time_taken,
     errors |-> errors, output |-> output, hints_used |-> hu]

\* ------------------------------------------------------------------- Init
Init ==
    /\ \E cfg \in ExerciseConfigs :
          /\ level = [e \in Exercises |-> cfg[e].level]
          /\ max_hints = [e \in Exercises |-> cfg[e].max_hints]
          /\ hints = [e \in Exercises |-> SubSeq(AllHints, 1, cfg[e].nhints)]
    /\ hints_used = [e \in Exercises |-> 0]
    /\ start_time = [e \in Exercises |-> NoTime]
    /\ exercises = <<>>
    /\ results = <<>>
    /\ clock = 0
    /\ pc = [a \in Attempts |-> "idle"]
    /\ att_ex = [a \in Attempts |-> None]
    /\ att_code = [a \in Attempts |-> <<>>]
    /\ trace = [a \in Attempts |-> <<>>]
    /\ results_by = <<>>
    /\ results_id = <<>>
    /\ completed = <<>>
    /\ hint_calls = [e \in Exercises |-> 0]
    /\ issued = [e \in Exercises |-> <<>>]
    /\ last = [op |-> "none"]

\* ----------------------------------------------------------- BaseExercise
HintAvailable_NoCap(e) ==
    hints_used[e] < Len(hints[e])

HintAvailable_CapOffByOne(e) ==
    hints_used[e] < Len(hints[e]) /\ hints_used[e] <= max_hints[e]

\* the test of get_next_hint: is there a hint left to hand out
HintAvailable(e) ==
    hints_used[e] < Len(hints[e]) /\ hints_used[e] < max_hints[e]

RECURSIVE SumOver(_, _)
SumOver(f, S) ==
    IF S = {} THEN 0
    ELSE LET x == CHOOSE y \in S : TRUE IN f[x] + SumOver(f, S \ {x})

\* get_next_hint calls made so far, on all exercises
HintCallsMade == SumOver(hint_calls, Exercises)

NextHint_FromEnd(e) == hints[e][Len(hints[e]) - hints_used[e]]

\* `hint = hints[self.hints_used]`
NextHint(e) == hints[e][hints_used[e] + 1]

get_next_hint(e) ==
    /\ HintCallsMade < MaxHintCalls
    /\ hint_calls' = [hint_calls EXCEPT ![e] = @ + 1]
    /\ IF HintAvailable(e)
       THEN LET hint == NextHint(e)
            IN  /\ hints_used' = [hints_used EXCEPT ![e] = @ + 1]
                /\ issued' = [issued EXCEPT ![e] = Append(@, hint)]
                /\ last' = [op |-> "get_next_hint", ex |-> e, value |-> hint]
       ELSE /\ UNCHANGED <<hints_used, issued>>
            /\ last' = [op |-> "get_next_hint", ex |-> e, value |-> None]
    /\ UNCHANGED <<exerciseVars, start_time, runnerVars, clock, callVars>>

\* start_timer: the start times after it
start_timer(e) == [start_time EXCEPT ![e] = clock]

\* exercise.start_timer() called by the client itself
CallStartTimer(e) ==
    /\ start_time' = start_timer(e)
    /\ last' = [op |-> "start_timer", ex |-> e]
    /\ UNCHANGED <<exerciseVars, hintVars, runnerVars, clock, callVars>>

\* time.time() moves on
Tick ==
    /\ clock < MaxClock
    /\ clock' = clock + 1
    /\ last' = [op |-> "none"]
    /\ UNCHANGED <<exerciseVars, hintVars, start_time, runnerVars, callVars>>

\* --------------------------------------------------------- ExerciseRunner
add_exercise(e) ==
    /\ Len(exercises) < MaxRegistered
    /\ exercises' = Append(exercises, e)
    /\ last' = [op |-> "none"]
    /\ UNCHANGED <<exerciseVars, hintVars, start_time, results, results_by,
                   results_id, clock, callVars>>

ValidationFailed_SeveralErrors(errs) == Len(errs) > 1

\* `if validation_errors:`
ValidationFailed(errs) == errs # <<>>

ValidationResult_NoHints(e, errs, st, now) ==
    ExerciseResult(FALSE, 0, get_elapsed_time(st[e], now), errs, None, 0)

\* the Result run_exercise synthesizes for a submission that fails validation
\* (st: the start times, as start_timer has just left them; now: the reading
\* of time.time() in get_elapsed_time)
ValidationResult(e, errs, st, now) ==
    ExerciseResult(FALSE, 0, get_elapsed_time(st[e], now), errs, None,
                   hints_used[e])

\* `result.hints_used = exercise.hints_used`
OverwriteHints_Keep(result, e) == result

OverwriteHints(result, e) ==
    [result EXCEPT !.hints_used = hints_used[e]]

RecordResult_Prepend(history, entry) == <<entry>> \o history

RecordResult_OverLast(history, entry) ==
    IF history = <<>>
    THEN <<entry>>
    ELSE [history EXCEPT ![Len(history)] = entry]

\* `self.results.append(result)`
RecordResult(history, entry) == Append(history, entry)

\* the history after the object id has been given the fields of result: the
\* entries are references, and every entry that is this object shows them
Mutated(history, id, result) ==
    [i \in 1..Len(history) |->
        IF results_id[i] = id THEN result ELSE history[i]]

CallRunExercise_ResetHints(a, e, code) ==
    /\ pc[a] = "idle"
    /\ \A b \in Attempts : b < a => pc[b] # "idle"
    /\ pc' = [pc EXCEPT ![a] = "setup"]
    /\ att_ex' = [att_ex EXCEPT ![a] = e]
    /\ att_code' = [att_code EXCEPT ![a] = code]
    /\ trace' = [trace EXCEPT ![a] = <<"setup">>]
    /\ hints_used' = [hints_used EXCEPT ![e] = 0]
    /\ last' = [op |-> "none"]
    /\ UNCHANGED <<exerciseVars, hint_calls, issued, start_time, runnerVars,
                   clock, completed>>

\* run_exercise is called: it runs up to its first suspension point, inside
\* `await exercise.setup()`
CallRunExercise(a, e, code) ==
    /\ pc[a] = "idle"
    /\ \A b \in Attempts : b < a => pc[b] # "idle"
    /\ pc' = [pc EXCEPT ![a] = "setup"]
    /\ att_ex' = [att_ex EXCEPT ![a] = e]
    /\ att_code' = [att_code EXCEPT ![a] = code]
    /\ trace' = [trace EXCEPT ![a] = <<"setup">>]
    /\ last' = [op |-> "none"]
    /\ UNCHANGED <<exerciseVars, hintVars, start_time, runnerVars, clock,
                   completed>>

SetupRaises_Recorded(a) ==
    /\ pc[a] = "setup"
    /\ pc' = [pc EXCEPT ![a] = "raised"]
    /\ results' = Append(results,
          ExerciseResult(FALSE, 0, 0, <<"Setup failed">>, None,
                         hints_used[att_ex[a]]))
    /\ results_by' = Append(results_by, a)
    /\ results_id' = Append(results_id, Len(results) + 1)
    /\ att_code' = [att_code EXCEPT ![a] = <<>>]
    /\ last' = [op |-> "run_exercise", att |-> a, raised |-> "setup"]
    /\ UNCHANGED <<exerciseVars, hintVars, start_time, exercises, clock,
                   att_ex, trace, completed>>

\* exercise.setup() raises: the exception leaves run_exercise
SetupRaises(a) ==
    /\ pc[a] = "setup"
    /\ pc' = [pc EXCEPT ![a] = "raised"]
    /\ att_code' = [att_code EXCEPT ![a] = <<>>]
    /\ last' = [op |-> "run_exercise", att |-> a, raised |-> "setup"]
    /\ UNCHANGED <<exerciseVars, hintVars, start_time, runnerVars, clock,
                   att_ex, trace, completed>>

\* exercise.setup() returns: start_timer, validate_code, and then the
\* exception validate_code lets through, or the early return of the failed
\* Result (time.time() is read again for its time_taken), or the call of
\* the evaluation step, in which the coroutine is suspended again
SetupReturns(a) ==
    /\ pc[a] = "setup"
    /\ LET e == att_ex[a]
           v == validate_code(att_code[a])
       IN  /\ start_time' = start_timer(e)
           /\ IF v.raised # None
              THEN /\ pc' = [pc EXCEPT ![a] = "raised"]
                   /\ trace' = [trace EXCEPT ![a] =
                                   @ \o <<"start_timer", "validate_code">>]
                   /\ att_code' = [att_code EXCEPT ![a] = <<>>]
                   /\ last' = [op |-> "run_exercise", att |-> a,
                               raised |-> v.raised]
                   /\ UNCHANGED <<completed, clock>>
              ELSE IF ValidationFailed(v.value)
              THEN \E now \in clock..MaxClock :
                   /\ clock' = now
                   /\ pc' = [pc EXCEPT ![a] = "returned"]
                   /\ trace' = [trace EXCEPT ![a] =
                                   @ \o <<"start_timer", "validate_code">>]
                   /\ att_code' = [att_code EXCEPT ![a] = <<>>]
                   /\ completed' = Append(completed, a)
                   /\ last' = [op |-> "run_exercise", att |-> a,
                               value |-> ValidationResult(e, v.value,
                                                          start_timer(e), now)]
              ELSE /\ pc' = [pc EXCEPT ![a] = "evaluate"]
                   /\ trace' = [trace EXCEPT ![a] =
                         @ \o <<"start_timer", "validate_code", "run_exercise">>]
                   /\ last' = [op |-> "none"]
                   /\ UNCHANGED <<att_code, completed, clock>>
    /\ UNCHANGED <<exerciseVars, hintVars, runnerVars, att_ex>>

\* the evaluation step returns an ExerciseResult: a new object with the
\* fields r (o = 0), or the object that the o-th history entry is.  The hint
\* counter is written into the object, the object is appended to the history
\* and returned.
EvaluateReturns(a, r, o) ==
    /\ pc[a] = "evaluate"
    /\ o \in 0..Len(results)
    /\ LET e == att_ex[a]
           id == IF o = 0 THEN Len(results) + 1 ELSE results_id[o]
           returned == IF o = 0
                       THEN ExerciseResult(r.success, r.score, r.time_taken,
                                           r.errors, r.output, r.hints_used)
                       ELSE results[o]
           result == OverwriteHints(returned, e)
       IN  /\ results' = RecordResult(Mutated(results, id, result), result)
           /\ results_by' = RecordResult(results_by, a)
           /\ results_id' = RecordResult(results_id, id)
           /\ last' = [op |-> "run_exercise", att |-> a, value |-> result]
    /\ pc' = [pc EXCEPT ![a] = "returned"]
    /\ att_code' = [att_code EXCEPT ![a] = <<>>]
    /\ completed' = Append(completed, a)
    /\ UNCHANGED <<exerciseVars, hintVars, start_time, exercises, clock,
                   att_ex, trace>>

\* the evaluation step raises: nothing in run_exercise catches it
EvaluateRaises(a) ==
    /\ pc[a] = "evaluate"
    /\ pc' = [pc EXCEPT ![a] = "raised"]
    /\ att_code' = [att_code EXCEPT ![a] = <<>>]
    /\ last' = [op |-> "run_exercise", att |-> a, raised |-> "evaluation"]
    /\ UNCHANGED <<exerciseVars, hintVars, start_time, runnerVars, clock,
                   att_ex, trace, completed>>

Cancel_Recorded(a) ==
    /\ pc[a] \in {"setup", "evaluate"}
    /\ pc' = [pc EXCEPT ![a] = "cancelled"]
    /\ att_code' = [att_code EXCEPT ![a] = <<>>]
    /\ results' = Append(results,
          ExerciseResult(FALSE, 0, get_elapsed_time(start_time[att_ex[a]], clock),
                         <<"Cancelled">>, None, hints_used[att_ex[a]]))
    /\ results_by' = Append(results_by, a)
    /\ results_id' = Append(results_id, Len(results) + 1)
    /\ last' = [op |-> "run_exercise", att |-> a, raised |-> "cancelled"]
    /\ UNCHANGED <<exerciseVars, hintVars, start_time, exercises, clock,
                   att_ex, trace, completed>>

\* the call is cancelled while it is suspended in setup or in the evaluation
\* step: CancelledError is raised at the await and leaves run_exercise
Cancel(a) ==
    /\ pc[a] \in {"setup", "evaluate"}
    /\ pc' = [pc EXCEPT ![a] = "cancelled"]
    /\ att_code' = [att_code EXCEPT ![a] = <<>>]
    /\ last' = [op |-> "run_exercise", att |-> a, raised |-> "cancelled"]
    /\ UNCHANGED <<exerciseVars, hintVars, start_time, runnerVars, clock,
                   att_ex, trace, completed>>

\* ------------------------------------------------------ progress reporting
RECURSIVE Gcd(_, _)
Gcd(m, n) == IF n = 0 THEN m ELSE Gcd(n, m % n)

\* what a division by zero leaves in the place of a quotient
ZeroDivisionError == <<0, 0>>

\* the quotient n / d (d >= 0), as a fraction in lowest terms
Div(n, d) ==
    IF d = 0
    THEN ZeroDivisionError
    ELSE <<n \div Gcd(n, d), d \div Gcd(n, d)>>

RECURSIVE Sum(_)
\* sum(...) over a sequence of numbers
Sum(q) == IF q = <<>> THEN 0 ELSE Head(q) + Sum(Tail(q))

Paired_OffByOne(n) == n < Len(results)

Paired_SkipFirst(n) == 1 < n /\ n <= Len(results)

\* `if i < len(self.results):`, for the n-th registered exercise (i = n - 1)
Paired(n) == n <= Len(results)

\* the loop of _group_by_level over the first n registered exercises; the
\* avg_score field holds the running score sum
RECURSIVE LevelLoop(_)
LevelLoop(n) ==
    IF n = 0 THEN <<>>
    ELSE LET prev == LevelLoop(n - 1)
             lv == level[exercises[n]]
             old == IF lv \in DOMAIN prev
                    THEN prev[lv]
                    ELSE [total |-> 0, completed |-> 0, successful |-> 0,
                          avg_score |-> 0]
             paired == Paired(n)
             new == [total |-> old.total + 1,
                     completed |-> old.completed + (IF paired THEN 1 ELSE 0),
                     successful |-> old.successful
                        + (IF paired /\ results[n].success THEN 1 ELSE 0),
                     avg_score |-> old.avg_score
                        + (IF paired THEN results[n].score ELSE 0)]
         IN  [l \in DOMAIN prev \cup {lv} |-> IF l = lv THEN new ELSE prev[l]]

_group_by_level_SumNotMean ==
    LET stats == LevelLoop(Len(exercises))
    IN  [l \in DOMAIN stats |->
            [stats[l] EXCEPT !.avg_score = Div(stats[l].avg_score, 1)]]

_group_by_level_NoGuard ==
    LET stats == LevelLoop(Len(exercises))
    IN  [l \in DOMAIN stats |->
            [stats[l] EXCEPT !.avg_score =
                Div(stats[l].avg_score, stats[l].completed)]]

_group_by_level ==
    LET stats == LevelLoop(Len(exercises))
    IN  [l \in DOMAIN stats |->
            [stats[l] EXCEPT !.avg_score =
                IF stats[l].completed > 0
                THEN Div(stats[l].avg_score, stats[l].completed)
                ELSE Div(0, 1)]]

ProgressReport_OverRegistered ==
    IF results = <<>>
    THEN [message |-> "No exercises completed yet"]
    ELSE LET total_exercises == Len(exercises) + 1
             successful ==
                 Sum([i \in 1..Len(results) |->
                         IF results[i].success THEN 1 ELSE 0])
         IN  [total_exercises |-> total_exercises,
              successful |-> successful,
              success_rate |-> Div(successful, total_exercises),
              average_score |->
                 Div(Sum([i \in 1..Len(results) |-> results[i].score]),
                     total_exercises),
              average_time |->
                 Div(Sum([i \in 1..Len(results) |-> results[i].time_taken]),
                     total_exercises),
              total_hints_used |->
                 Sum([i \in 1..Len(results) |-> results[i].hints_used]),
              exercises_by_level |-> _group_by_level]

ProgressReport ==
    IF results = <<>>
    THEN [message |-> "No exercises completed yet"]
    ELSE LET total_exercises == Len(results)
             successful ==
                 Sum([i \in 1..Len(results) |->
                         IF results[i].success THEN 1 ELSE 0])
             avg_score ==
                 Div(Sum([i \in 1..Len(results) |-> results[i].score]),
                     total_exercises)
             avg_time ==
                 Div(Sum([i \in 1..Len(results) |-> results[i].time_taken]),
                     total_exercises)
             total_hints ==
                 Sum([i \in 1..Len(results) |-> results[i].hints_used])
         IN  [total_exercises |-> total_exercises,
              successful |-> successful,
              success_rate |-> Div(successful, total_exercises),
              average_score |-> avg_score,
              average_time |-> avg_time,
              total_hints_used |-> total_hints,
              exercises_by_level |-> _group_by_level]

get_progress_report ==
    /\ last' = [op |-> "get_progress_report", value |-> ProgressReport]
    /\ UNCHANGED <<exerciseVars, hintVars, start_time, runnerVars, clock,
                   callVars>>

\* ------------------------------------------------------------------- Next
Next ==
    \/ \E e \in Exercises : get_next_hint(e)
    \/ \E e \in Exercises : CallStartTimer(e)
    \/ Tick
    \/ \E e \in Exercises : add_exercise(e)
    \/ \E a \in Attempts, e \in Exercises, code \in Submissions :
          CallRunExercise(a, e, code)
    \/ \E a \in Attempts : SetupRaises(a)
    \/ \E a \in Attempts : SetupReturns(a)
    \/ \E a \in Attempts, r \in EvalOutcomes, o \in 0..MaxAttempts :
          EvaluateReturns(a, r, o)
    \/ \E a \in Attempts : EvaluateRaises(a)
    \/ \E a \in Attempts : Cancel(a)
    \/ get_progress_report

Spec == Init /\ [][Next]_vars

\* ------------------------------------------- the report as a pure function
\* get_progress_report reads self.exercises, their levels, and self.results.
\* SpecReport applies it to the histories of up to MaxHistory recorded
\* Results: the Runner after earlier calls that are all over.  An entry of
\* the history is a Result of the evaluation step, with the hint counter
\* run_exercise found at its return.
HistoryEntries ==
    { ExerciseResult(r.success, r.score, r.time_taken, r.errors, r.output, h) :
         r \in EvalOutcomes, h \in {0, 1} }

RECURSIVE Histories(_)
\* the histories of at most n entries
Histories(n) ==
    IF n = 0 THEN {<<>>}
    ELSE LET shorter == Histories(n - 1)
         IN  shorter \cup { Append(h, r) : h \in shorter, r \in HistoryEntries }

InitReport ==
    /\ \E cfg \in ExerciseConfigs :
          /\ level = [e \in Exercises |-> cfg[e].level]
          /\ max_hints = [e \in Exercises |-> cfg[e].max_hints]
          /\ hints = [e \in Exercises |-> SubSeq(AllHints, 1, cfg[e].nhints)]
    /\ hints_used = [e \in Exercises |-> 0]
    /\ start_time = [e \in Exercises |-> NoTime]
    /\ exercises = <<>>
    /\ results \in Histories(MaxHistory)
    /\ clock = 0
    /\ pc = [a \in Attempts |-> "idle"]
    /\ att_ex = [a \in Attempts |-> None]
    /\ att_code = [a \in Attempts |-> <<>>]
    /\ trace = [a \in Attempts |-> <<>>]
    /\ results_by = [i \in 1..Len(results) |-> 0]
    /\ results_id = [i \in 1..Len(results) |-> i]
    /\ completed = <<>>
    /\ hint_calls = [e \in Exercises |-> 0]
    /\ issued = [e \in Exercises |-> <<>>]
    /\ last = [op |-> "none"]

NextReport ==
    \/ \E e \in Exercises : add_exercise(e)
    \/ get_progress_report

SpecReport == InitReport /\ [][NextReport]_vars

TypeOK ==
    /\ hints_used \in [Exercises -> Nat]
    /\ start_time \in [Exercises -> {NoTime} \cup 0..MaxClock]
    /\ clock \in 0..MaxClock
    /\ pc \in [Attempts -> {"idle", "setup", "evaluate", "returned", "raised",
                             "cancelled"}]
    /\ Len(results) = Len(results_by)
    /\ Len(results) = Len(results_id)

\* ================================================================= claims
Range(q) == {q[i] : i \in DOMAIN q}

\* the last step was the return of a Result by call a
ReturnedResult(l, a) ==
    l.op = "run_exercise" /\ l.att = a /\ "value" \in DOMAIN l

\* the last step was get_next_hint on e
HintReturned(l, e) == l.op = "get_next_hint" /\ l.ex = e

\* the index of call a in the order of completion (0: not completed)
CompletionRank(a) ==
    IF a \in Range(completed)
    THEN CHOOSE i \in 1..Len(completed) : completed[i] = a
    ELSE 0

\* validate_code returns a list with errors for the submission, or an empty
\* one
FailsValidation(code) ==
    validate_code(code).raised = None /\ validate_code(code).value # <<>>
PassesValidation(code) ==
    validate_code(code).raised = None /\ validate_code(code).value = <<>>

Min(m, n) == IF m <= n THEN m ELSE n
Max(m, n) == IF m >= n THEN m ELSE n

\* C1: when run_exercise returns the Result it synthesized for a submission
\* that failed validation, the history is one entry longer than before and
\* its last entry is the returned Result.
C1_ValidationFailureRecorded ==
    [][\A a \in Attempts :
          (/\ pc[a] = "setup"
           /\ FailsValidation(att_code[a])
           /\ ReturnedResult(last', a))
          => /\ Len(results') = Len(results) + 1
             /\ results'[Len(results')] = last'.value]_vars

\* C2: no fault other than a setup failure leaves run_exercise: a call that
\* ended by raising has called nothing but setup, and a call that is past its
\* evaluation step, faulted or not, has returned a Result that the history
\* holds.
C2_OnlySetupFailureEscapes ==
    \A a \in Attempts :
        /\ pc[a] = "raised" => trace[a] = <<"setup">>
        /\ ("run_exercise" \in Range(trace[a])
            /\ pc[a] \notin {"evaluate", "cancelled"})
              => pc[a] = "returned" /\ a \in Range(results_by)

\* C3: when setup fails, the failure reaches the caller, the history and the
\* timer are left as they were, and the call has invoked, and will invoke,
\* nothing after setup.
C3_SetupFailureAborts ==
    [][\A a \in Attempts :
          /\ (pc[a] = "setup" /\ pc'[a] = "raised"
              /\ "start_timer" \notin Range(trace'[a]))
                => /\ last' = [op |-> "run_exercise", att |-> a,
                               raised |-> "setup"]
                   /\ results' = results
                   /\ start_time' = start_time
                   /\ trace'[a] = <<"setup">>
          /\ (pc[a] = "raised" /\ trace[a] = <<"setup">>)
                => pc'[a] = "raised" /\ trace'[a] = trace[a]]_vars

C3_Witness ==
    \E a \in Attempts :
        /\ pc[a] = "raised" /\ trace[a] = <<"setup">>
        /\ last = [op |-> "run_exercise", att |-> a, raised |-> "setup"]
        /\ Len(results) = 1

\* C4: a call whose submission has validation errors returns, as soon as
\* setup is over, a Result with success false, score 0.0, exactly the
\* validation errors in their order, no output, and the exercise's hint
\* counter as it stands at that moment.
C4_ValidationFailureResult ==
    [][\A a \in Attempts :
          (/\ pc[a] = "setup"
           /\ pc'[a] \notin {"setup", "raised", "cancelled"}
           /\ FailsValidation(att_code[a]))
          => /\ pc'[a] = "returned"
             /\ ReturnedResult(last', a)
             /\ last'.value.success = FALSE
             /\ last'.value.score = 0
             /\ last'.value.errors = validate_code(att_code[a]).value
             /\ last'.value.output = None
             /\ last'.value.hints_used = hints_used'[att_ex[a]]]_vars

C4_Witness ==
    \E a \in Attempts :
        /\ ReturnedResult(last, a)
        /\ trace[a] = <<"setup", "start_timer", "validate_code">>
        /\ Len(last.value.errors) = 2
        /\ last.value.hints_used = 2

\* C5: a call invokes the evaluation step only out of setup, after the timer
\* and a validation that found no error; a call whose validation found an
\* error never invokes it, neither then nor later.
C5_NoEvaluationAfterValidationFailure ==
    [][\A a \in Attempts :
          /\ (pc[a] = "setup" /\ FailsValidation(att_code[a]))
                => "run_exercise" \notin Range(trace'[a])
          /\ ("run_exercise" \in Range(trace'[a])
              /\ "run_exercise" \notin Range(trace[a]))
                => /\ pc[a] = "setup"
                   /\ PassesValidation(att_code[a])
                   /\ trace'[a] = <<"setup", "start_timer", "validate_code",
                                    "run_exercise">>
          /\ pc[a] \in {"returned", "raised", "cancelled"}
                => trace'[a] = trace[a]]_vars

C5_Witness ==
    \E a, b \in Attempts :
        /\ pc[a] = "returned"
        /\ trace[a] = <<"setup", "start_timer", "validate_code">>
        /\ pc[b] = "evaluate"
        /\ att_ex[b] = "ex1"

\* C6: an exercise with a non-negative max_hints never has more hints used
\* than max_hints, nor than it has hints.
C6_HintsUsedBounded ==
    \A e \in Exercises :
        max_hints[e] >= 0
        => hints_used[e] <= max_hints[e] /\ hints_used[e] <= Len(hints[e])

C6_Witness ==
    \E e \in Exercises :
        /\ max_hints[e] > 0
        /\ Len(hints[e]) > max_hints[e]
        /\ hints_used[e] = max_hints[e]
        /\ hint_calls[e] > max_hints[e]
        /\ \E a \in Attempts : pc[a] = "returned"

\* C7: after n calls of get_next_hint, n at most max_hints and at most the
\* number of hints, hints_used is n; a call made when max_hints calls have
\* been made returns None, and from max_hints calls on hints_used stays at
\* the value it then has, the smaller of max_hints and the number of hints.
C7_HintCounting ==
    \A e \in Exercises :
        /\ (hint_calls[e] <= max_hints[e] /\ hint_calls[e] <= Len(hints[e]))
              => hints_used[e] = hint_calls[e]
        /\ (HintReturned(last, e) /\ hint_calls[e] > max_hints[e])
              => last.value = None
        /\ hint_calls[e] >= max_hints[e]
              => hints_used[e] = Min(Max(max_hints[e], 0), Len(hints[e]))

C7_Witness ==
    \E e \in Exercises :
        /\ max_hints[e] > 0
        /\ hint_calls[e] > max_hints[e]
        /\ hints_used[e] = max_hints[e]
        /\ HintReturned(last, e)
        /\ last.value = None

\* C8: the hints get_next_hint has returned are, in order, the first hints
\* of get_hints(), one per unit of hints_used; a call returns None exactly
\* when hints_used has reached the smaller of the number of hints and
\* max_hints, and the next hint of the sequence otherwise.
C8_HintOrder ==
    \A e \in Exercises :
        /\ Len(issued[e]) = hints_used[e]
        /\ Len(issued[e]) <= Len(hints[e])
        /\ issued[e] = SubSeq(hints[e], 1, Len(issued[e]))
        /\ HintReturned(last, e)
              => IF last.value = None
                 THEN hints_used[e] >= Min(Len(hints[e]), max_hints[e])
                 ELSE /\ hints_used[e] - 1 < Min(Len(hints[e]), max_hints[e])
                      /\ last.value = hints[e][hints_used[e]]
                      /\ last.value = issued[e][Len(issued[e])]

C8_Witness ==
    \E e \in Exercises :
        /\ issued[e] = <<"hint A", "hint B">>
        /\ HintReturned(last, e)
        /\ last.value = "hint B"

\* C9: every step leaves the history as it was or longer, with each entry
\* it had unchanged in every field.
C9_HistoryAppendOnly ==
    [][/\ Len(results') >= Len(results)
       /\ \A i \in 1..Len(results) : results'[i] = results[i]]_vars

\* C10: the entries of the history are in the order in which their calls
\* returned: an entry's call has returned, and of two entries the earlier
\* one is of the call that returned first.
C10_HistoryInCompletionOrder ==
    /\ \A i \in 1..Len(results_by) : CompletionRank(results_by[i]) > 0
    /\ \A i, j \in 1..Len(results_by) :
          i < j => CompletionRank(results_by[i]) < CompletionRank(results_by[j])

C10_Witness ==
    /\ results_by = <<2, 1>>
    /\ completed = <<2, 1>>
    /\ results[1] # results[2]

\* the last step was get_progress_report, on a history with entries
Reported(l) ==
    l.op = "get_progress_report" /\ "total_exercises" \in DOMAIN l.value

\* the fraction q (lowest terms, positive denominator) is n / d
IsQuotient(q, n, d) ==
    /\ q[2] > 0
    /\ q[1] * d = n * q[2]
    /\ \A k \in 2..q[2] : ~(q[1] % k = 0 /\ q[2] % k = 0)

\* the sum of f over the finite set S of indices
RECURSIVE Total(_, _)
Total(f, S) ==
    IF S = {} THEN 0
    ELSE LET i == CHOOSE j \in S : TRUE IN f[i] + Total(f, S \ {i})

\* C11: in every Result run_exercise returns and in every Result of the
\* history, errors being non-empty means success is false.
C11_ErrorsImplyFailure ==
    /\ \A i \in 1..Len(results) :
          results[i].errors # <<>> => ~results[i].success
    /\ \A a \in Attempts :
          (ReturnedResult(last, a) /\ last.value.errors # <<>>)
          => ~last.value.success

\* C12: the report of a non-empty history gives the number of entries, the
\* number of successful ones, their quotient, the mean score, the mean time
\* and the sum of hints_used.
C12_ReportTotals ==
    Reported(last) =>
       LET n == Len(results)
           idx == 1..n
           rep == last.value
       IN  /\ n > 0
           /\ rep.total_exercises = n
           /\ rep.successful = Cardinality({i \in idx : results[i].success})
           /\ IsQuotient(rep.success_rate,
                         Cardinality({i \in idx : results[i].success}), n)
           /\ IsQuotient(rep.average_score,
                         Total([i \in idx |-> results[i].score], idx), n)
           /\ IsQuotient(rep.average_time,
                         Total([i \in idx |-> results[i].time_taken], idx), n)
           /\ rep.total_hints_used =
                 Total([i \in idx |-> results[i].hints_used], idx)

\* scores [1.0, 0.0, 0.5] with successes [true, false, true]: success_rate
\* 2/3 and average_score 0.5
C12_Witness ==
    /\ Reported(last)
    /\ Len(results) = 3
    /\ [i \in 1..3 |-> results[i].score] = <<100, 0, 50>>
    /\ [i \in 1..3 |-> results[i].success] = <<TRUE, FALSE, TRUE>>
    /\ last.value.success_rate = <<2, 3>>
    /\ last.value.average_score = <<50, 1>>
    /\ last.value.total_hints_used = 2

\* the registration indices of level l, and those of them with a history
\* entry at the same index
RegisteredAt(l) == {i \in 1..Len(exercises) : level[exercises[i]] = l}
AlignedAt(l) == {i \in RegisteredAt(l) : i <= Len(results)}

\* C13: _group_by_level has exactly the levels of the registered exercises,
\* and for each of them total is the number of its registered exercises,
\* completed the number of those whose index has a history entry, successful
\* the number of those entries with success, and avg_score the sum of those
\* entries' scores over completed.
C13_IndexAlignedGrouping ==
    LET stats == _group_by_level
    IN  /\ DOMAIN stats = {level[exercises[i]] : i \in 1..Len(exercises)}
        /\ \A l \in DOMAIN stats :
              /\ stats[l].total = Cardinality(RegisteredAt(l))
              /\ stats[l].completed = Cardinality(AlignedAt(l))
              /\ stats[l].successful =
                    Cardinality({i \in AlignedAt(l) : results[i].success})
              /\ AlignedAt(l) # {}
                    => IsQuotient(stats[l].avg_score,
                          Total([i \in AlignedAt(l) |-> results[i].score],
                                AlignedAt(l)),
                          Cardinality(AlignedAt(l)))

C13_Witness ==
    /\ Reported(last)
    /\ last.value.exercises_by_level = _group_by_level
    /\ DOMAIN _group_by_level = {LEVEL_1, LEVEL_2}
    /\ exercises = <<"ex1", "ex2">>
    /\ Len(results) = 3
    /\ _group_by_level[LEVEL_1].successful = 0
    /\ _group_by_level[LEVEL_2].avg_score = <<50, 1>>

\* the calls made so far, and the exercise that produced the i-th entry
Started == {a \in Attempts : pc[a] # "idle"}
ProducerOf(i) == att_ex[results_by[i]]
Registered == Range(exercises)
IndexOf(e) == CHOOSE i \in 1..Len(exercises) : exercises[i] = e

\* the per-level statistics with every history entry counted for the
\* exercise that produced it
IdentityStats ==
    [l \in {level[e] : e \in Registered} |->
        LET mine == {i \in 1..Len(results) : level[ProducerOf(i)] = l}
        IN  [total |-> Cardinality(RegisteredAt(l)),
             completed |-> Cardinality(mine),
             successful |-> Cardinality({i \in mine : results[i].success}),
             avg_score |->
                IF mine = {} THEN <<0, 1>>
                ELSE Div(Total([i \in mine |-> results[i].score], mine),
                         Cardinality(mine))]]

\* every call made is over; the exercises run are registered, each is
\* registered once and run at most once, and they were attempted in
\* registration order, none before all the ones registered before it
RunOnceInRegistrationOrder ==
    /\ \A a \in Started : pc[a] \notin {"setup", "evaluate"}
    /\ \A i, j \in 1..Len(exercises) : exercises[i] = exercises[j] => i = j
    /\ \A a \in Started : att_ex[a] \in Registered
    /\ \A a, b \in Started : att_ex[a] = att_ex[b] => a = b
    /\ \A a, b \in Started : a < b => IndexOf(att_ex[a]) < IndexOf(att_ex[b])
    /\ \A a \in Started :
          \A i \in 1..(IndexOf(att_ex[a]) - 1) :
             \E b \in Started : b < a /\ att_ex[b] = exercises[i]

\* C14 as stated: when every registered exercise is run at most once and
\* the runs happen in registration order, the index-aligned statistics are
\* the statistics by producing exercise.
C14_AlignedWhenRunInOrder ==
    RunOnceInRegistrationOrder => _group_by_level = IdentityStats

\* the history entries are, in order, the Results of the first registered
\* exercises, and every call made has returned and recorded its Result
HistoryFollowsRegistration ==
    /\ \A a \in Started : pc[a] = "returned" /\ a \in Range(results_by)
    /\ Len(results) <= Len(exercises)
    /\ \A i \in 1..Len(results) : ProducerOf(i) = exercises[i]

\* C14, amended: when the i-th history entry is the Result of the i-th
\* registered exercise for every entry, every call made having recorded its
\* Result, the index-aligned statistics are the statistics by producing
\* exercise.
C14_AlignedWhenHistoryFollowsRegistration ==
    HistoryFollowsRegistration => _group_by_level = IdentityStats

C14_Witness ==
    /\ HistoryFollowsRegistration
    /\ exercises = <<"ex1", "ex2">>
    /\ level["ex1"] # level["ex2"]
    /\ Len(results) = 2
    /\ results[1].success /\ ~results[2].success

\* the quotients of a report
QuotientsOf(rep) ==
    IF "message" \in DOMAIN rep THEN {}
    ELSE {rep.success_rate, rep.average_score, rep.average_time}
         \cup {rep.exercises_by_level[l].avg_score :
                  l \in DOMAIN rep.exercises_by_level}

\* C15: get_progress_report divides by zero in no reachable state: on an
\* empty history it returns the "No exercises completed yet" message alone,
\* and a level without completed entries reports avg_score 0.0.
C15_NoDivisionByZero ==
    /\ results = <<>>
          => ProgressReport = [message |-> "No exercises completed yet"]
    /\ ZeroDivisionError \notin QuotientsOf(ProgressReport)
    /\ results # <<>>
          => \A l \in DOMAIN ProgressReport.exercises_by_level :
                ProgressReport.exercises_by_level[l].completed = 0
                => ProgressReport.exercises_by_level[l].avg_score = <<0, 1>>

C15_Witness ==
    /\ Reported(last)
    /\ last.value = ProgressReport
    /\ \E l \in DOMAIN last.value.exercises_by_level :
          /\ last.value.exercises_by_level[l].completed = 0
          /\ last.value.exercises_by_level[l].total = 1
    /\ \E l \in DOMAIN last.value.exercises_by_level :
          last.value.exercises_by_level[l].completed = 1

\* C20: in every state, every level of _group_by_level has successful <=
\* completed <= total, the totals add up to the number of registered
\* exercises and the completed counts to the smaller of that number and the
\* length of the history.
C20_LevelCountsConsistent ==
    LET stats == _group_by_level
        levels == DOMAIN stats
    IN  /\ \A l \in levels :
              /\ 0 <= stats[l].successful
              /\ stats[l].successful <= stats[l].completed
              /\ stats[l].completed <= stats[l].total
        /\ Total([l \in levels |-> stats[l].total], levels) = Len(exercises)
        /\ Total([l \in levels |-> stats[l].completed], levels)
              = Min(Len(exercises), Len(results))

C20_Witness ==
    /\ exercises = <<"ex1">>
    /\ att_ex = [a \in Attempts |-> "ex2"]
    /\ Len(results) = 2
    /\ results[1].success
    /\ level["ex1"] # level["ex2"]

\* the step is one in which start_timer is called on e: by run_exercise,
\* when a call on e gets past setup, or by the client
TimerRestarted(e) ==
    \/ \E a \in Attempts :
          /\ att_ex[a] = e
          /\ pc[a] = "setup"
          /\ "start_timer" \in Range(trace'[a])
    \/ last'.op = "start_timer" /\ last'.ex = e

\* C16 as stated: get_elapsed_time is 0 as long as start_timer has not been
\* called on the exercise, and from then on it is non-negative and never
\* goes down, whatever the harness does, further run_exercise attempts on
\* the same exercise included.
C16_ElapsedNeverDecreases ==
    [][\A e \in Exercises :
          /\ start_time[e] = NoTime
                => get_elapsed_time(start_time[e], clock) = 0
          /\ get_elapsed_time(start_time[e], clock) >= 0
          /\ start_time[e] # NoTime
                => get_elapsed_time(start_time'[e], clock')
                      >= get_elapsed_time(start_time[e], clock)]_vars

\* C16, amended: get_elapsed_time is 0 as long as start_timer has not been
\* called on the exercise, it is never negative, and it does not go down
\* over any step in which start_timer is not called on the exercise; a
\* call of start_timer, by a run_exercise attempt on the exercise that gets
\* past setup or by the client, makes it the time elapsed since that call.
C16_ElapsedNeverDecreasesBetweenRestarts ==
    [][\A e \in Exercises :
          /\ start_time[e] = NoTime
                => get_elapsed_time(start_time[e], clock) = 0
          /\ get_elapsed_time(start_time[e], clock) >= 0
          /\ get_elapsed_time(start_time'[e], clock') >= 0
          /\ IF TimerRestarted(e)
             THEN get_elapsed_time(start_time'[e], clock') = clock' - clock
             ELSE get_elapsed_time(start_time'[e], clock')
                     >= get_elapsed_time(start_time[e], clock)]_vars

C16_Witness ==
    \E e \in Exercises :
       /\ start_time[e] = 0
       /\ clock = 1
       /\ get_elapsed_time(start_time[e], clock) = 1
       /\ \A a \in Attempts : att_ex[a] = e /\ pc[a] = "returned"
       /\ Len(results) = 1
       /\ \E a \in Attempts :
             ReturnedResult(last, a) /\ last.value.time_taken = 1

\* C17: when the evaluation step returns a Result, run_exercise appends
\* exactly one entry to the history, the entry is the last one and is the
\* Result returned to the caller, and its hints_used is the exercise's
\* counter at that moment, whatever the evaluation step reported.
C17_EvaluatedResultRecorded ==
    [][\A a \in Attempts :
          pc[a] = "evaluate" /\ pc'[a] = "returned"
          => /\ ReturnedResult(last', a)
             /\ Len(results') = Len(results) + 1
             /\ results'[Len(results')] = last'.value
             /\ results_by' = Append(results_by, a)
             /\ last'.value.hints_used = hints_used[att_ex[a]]
             /\ hints_used' = hints_used]_vars

C17_Witness ==
    \E a \in Attempts :
       /\ ReturnedResult(last, a)
       /\ Len(results) = 2
       /\ results[2] = last.value
       /\ last.value.output = "Pa"
       /\ last.value.hints_used = 1
       /\ hints_used[att_ex[a]] = 1

\* C18: an exercise's hints_used counter is changed by get_next_hint only,
\* which adds one to it: the steps of run_exercise, add_exercise and
\* get_progress_report leave it as it is, so it is not reset between
\* attempts on the same exercise and it never goes down.
C18_OnlyGetNextHintCounts ==
    [][/\ \A e \in Exercises :
             hints_used'[e] # hints_used[e]
             => /\ HintReturned(last', e)
                /\ hint_calls'[e] = hint_calls[e] + 1
                /\ hints_used'[e] = hints_used[e] + 1
       /\ (pc' # pc \/ exercises' # exercises \/ results' # results
             \/ last'.op \in {"run_exercise", "get_progress_report"})
          => hints_used' = hints_used]_vars

C18_Witness ==
    \E e \in Exercises :
       /\ \A a \in Attempts : att_ex[a] = e /\ pc[a] = "returned"
       /\ hints_used[e] = 1
       /\ Len(results) = 2
       /\ results[1].hints_used = 1
       /\ results[2].hints_used = 1

\* C19: a run_exercise call cancelled in setup or in the evaluation step
\* appends nothing: the step of the cancellation leaves the history as it
\* is, and no entry of the history is of a cancelled call.
C19_CancelledNotRecorded ==
    [][/\ \A a \in Attempts :
             pc[a] # "cancelled" /\ pc'[a] = "cancelled"
             => /\ pc[a] \in {"setup", "evaluate"}
                /\ results' = results
       /\ \A a \in Attempts :
             pc'[a] = "cancelled"
             => a \notin Range(results_by') /\ a \notin Range(completed')]_vars

C19_Witness ==
    /\ pc = <<"returned", "cancelled">>
    /\ trace[2] = <<"setup", "start_timer", "validate_code", "run_exercise">>
    /\ Len(results) = 1
    /\ results_by = <<1>>
    /\ last.op = "run_exercise" /\ last.att = 2

====
